---- MODULE Spec2Model ----
(***************************************************************************)
(* Territorial attribution and full-history retention pass of the AIS      *)
(* collector: src/territory.py (find_territorial_country) and              *)
(* src/cleanup_all_history.py (load_territorial_waters,                    *)
(* get_vessel_country, analyze_all_history, delete_vessels_completely,     *)
(* main).                                                                  *)
(*                                                                         *)
(* The geometry engine (shapely) and the store (Supabase/PostgREST) are    *)
(* external: the engine is modelled by the answers it gives for a point    *)
(* about each geometry of the dataset file, the store by a set of rows     *)
(* with ordered range reads and delete-by-mmsi requests.                   *)
(***************************************************************************)
EXTENDS Integers, Sequences, FiniteSets, TLC

VARIABLES
    features,            \* the boundary dataset file: features in file order
    boundaries,          \* cleanup_all_history: list built by load_territorial_waters
    _territorial_polys,  \* territory.py: module-level list, loaded lazily
    point,               \* the point given to the classifiers
    country,             \* what get_vessel_country did for point
    iso2,                \* what find_territorial_country did for point
    supabase,            \* what get_supabase_client returned: "client" or "None"
    store,               \* rows of table vessel_positions
    store0,              \* the rows at the start of the current pass
    pc,                  \* position of the retention pass
    offset,              \* analyze_all_history: offset
    all_positions,       \* analyze_all_history: all_positions
    fetches,             \* page requests sent in the current analysis
    fetch_error,         \* a page request of the current analysis raised
    vessels_to_keep,     \* result of analyze_all_history
    vessels_to_delete,   \* result of analyze_all_history
    response,            \* the line read at the confirmation prompt
    mmsi_set,            \* delete_vessels_completely: its argument
    mmsi_list,           \* delete_vessels_completely: list(mmsi_set)
    i,                   \* delete_vessels_completely: loop index
    requests,            \* delete requests sent in the current pass, in order
    failed,              \* the batch whose delete request raised, or <<>>
    run,                 \* number of the current pass
    prev                 \* how the previous pass ended

vars == <<features, boundaries, _territorial_polys, point, country, iso2,
          supabase, store, store0, pc, offset, all_positions, fetches,
          fetch_error, vessels_to_keep, vessels_to_delete, response, mmsi_set, mmsi_list,
          i, requests, failed, run, prev>>

classifyVars == <<features, boundaries, _territorial_polys, point, country, iso2>>
passVars == <<supabase, store, store0, pc, offset, all_positions, fetches,
              fetch_error, vessels_to_keep, vessels_to_delete, response, mmsi_set,
              mmsi_list, i, requests, failed, run, prev>>

(***************************************************************************)
(* Bounds of the model.  The code fixes page_size = 1000 (line 149) and    *)
(* batch_size = 100 (line 223); both loops are parametric in them and the  *)
(* model runs them on small values so that full, partial and empty pages   *)
(* and batches all occur on small stores.                                  *)
(***************************************************************************)
page_size == 2
batch_size == 2
MaxRows == 4
MaxBoundaries == 2
MaxRuns == 2

\* distance below which a line boundary matches, in tenths of a degree (0.2)
PROXIMITY_THRESHOLD == 2

Min(a, b) == IF a < b THEN a ELSE b

\* Python's None and a raised exception, as results of a call
None == "<None>"
Raised == "<raised>"
NotCalled == "<not called>"

(***************************************************************************)
(* The dataset file and the geometry engine.                               *)
(***************************************************************************)
AreaTypes == {"Polygon"}
LineTypes == {"LineString"}
GeomTypes == AreaTypes \cup LineTypes \cup {"Point"}
Names == {"A", "B", None}

\* a feature of the file: the type of its geometry and the jurisdiction its
\* properties name (None: no property of the resolution chain is set)
Features == [type : GeomTypes, name : Names]

\* What the engine answers for one point about one geometry:
\*   contains, intersects, distance (tenths of a degree), and which of its
\*   tests raise: "none", "prepared" (only the prepared geometry's test) or
\*   "all" (every test on the geometry).
Inside    == [contains |-> TRUE,  intersects |-> TRUE,  distance |-> 0, bad |-> "none"]
OnEdge    == [contains |-> FALSE, intersects |-> TRUE,  distance |-> 0, bad |-> "none"]
Near      == [contains |-> FALSE, intersects |-> FALSE, distance |-> 1, bad |-> "none"]
AtLimit   == [contains |-> FALSE, intersects |-> FALSE, distance |-> 2, bad |-> "none"]
PrepBadIn == [contains |-> TRUE,  intersects |-> TRUE,  distance |-> 0, bad |-> "prepared"]
PrepBadOut == [contains |-> FALSE, intersects |-> FALSE, distance |-> 2, bad |-> "prepared"]
AllBad    == [contains |-> FALSE, intersects |-> FALSE, distance |-> 2, bad |-> "all"]
Answers == {Inside, OnEdge, Near, AtLimit, PrepBadIn, PrepBadOut, AllBad}

\* A point is known by the engine's answers about the geometries of the file:
\* p[g] is the answer about the geometry of feature g.
SeqsUpTo(S, n) == UNION {[1..k -> S] : k \in 0..n}

(***************************************************************************)
(* cleanup_all_history.load_territorial_waters                             *)
(***************************************************************************)
RECURSIVE LoadFrom(_, _)
LoadFrom(fs, g) ==
    IF g > Len(fs) THEN <<>>
    ELSE IF fs[g].type \in AreaTypes \cup LineTypes
         THEN <<[geometry |-> g,
                 country |-> IF fs[g].name # None THEN fs[g].name ELSE "Unknown",
                 type |-> fs[g].type]>> \o LoadFrom(fs, g + 1)
         ELSE LoadFrom(fs, g + 1)

load_territorial_waters(fs) == LoadFrom(fs, 1)

(***************************************************************************)
(* territory._load_geojson: every feature with a geometry, iso2 may be None *)
(***************************************************************************)
_load_geojson(fs) ==
    [g \in 1..Len(fs) |-> [iso2 |-> fs[g].name, poly |-> g]]

(***************************************************************************)
(* cleanup_all_history.get_vessel_country: the loop from boundary k on.    *)
(* ret: the value returned, or Raised; consulted: the boundaries tested.   *)
(* The geometries are not prepared here, so only a geometry whose every    *)
(* test raises makes contains() or distance() raise; nothing catches it.   *)
(***************************************************************************)
\* get_vessel_country with the loop running on after a match: the last
\* matching boundary wins
RECURSIVE VesselCountryLastMatch(_, _, _)
VesselCountryLastMatch(p, bs, k) ==
    IF k > Len(bs) THEN [ret |-> None, consulted |-> k - 1]
    ELSE LET b == bs[k]
             a == p[b.geometry]
             rest == VesselCountryLastMatch(p, bs, k + 1)
             hit == IF b.type \in AreaTypes THEN a.contains
                    ELSE a.distance < PROXIMITY_THRESHOLD
         IN IF a.bad = "all" THEN [ret |-> Raised, consulted |-> k]
            ELSE IF hit /\ rest.ret = None
                 THEN [ret |-> b.country, consulted |-> Len(bs)]
                 ELSE rest

RECURSIVE VesselCountryFrom(_, _, _)
VesselCountryFrom(p, bs, k) ==
    IF k > Len(bs) THEN [ret |-> None, consulted |-> k - 1]
    ELSE LET b == bs[k]
             a == p[b.geometry]
         IN IF a.bad = "all" THEN [ret |-> Raised, consulted |-> k]
            ELSE IF b.type \in AreaTypes
                 THEN IF a.contains THEN [ret |-> b.country, consulted |-> k]
                      ELSE VesselCountryFrom(p, bs, k + 1)
            ELSE IF b.type \in LineTypes
                 THEN IF a.distance < PROXIMITY_THRESHOLD
                      THEN [ret |-> b.country, consulted |-> k]
                      ELSE VesselCountryFrom(p, bs, k + 1)
            ELSE VesselCountryFrom(p, bs, k + 1)

get_vessel_country(p, bs) == VesselCountryFrom(p, bs, 1)

(***************************************************************************)
(* territory.find_territorial_country: the loop from entry k on.           *)
(***************************************************************************)
RECURSIVE TerritorialCountryFrom(_, _, _)
TerritorialCountryFrom(p, polys, k) ==
    IF k > Len(polys) THEN [ret |-> None, consulted |-> k - 1]
    ELSE LET a == p[polys[k].poly]
         IN IF a.bad = "none"
            THEN IF a.contains THEN [ret |-> polys[k].iso2, consulted |-> k]
                 ELSE TerritorialCountryFrom(p, polys, k + 1)
            ELSE IF a.bad = "prepared" /\ a.intersects
                 THEN [ret |-> polys[k].iso2, consulted |-> k]
                 ELSE TerritorialCountryFrom(p, polys, k + 1)

find_territorial_country(p, polys) == TerritorialCountryFrom(p, polys, 1)

(***************************************************************************)
(* The classifiers on their own: any dataset file, any point.              *)
(***************************************************************************)
NoPrev == [ended |-> "none", keep |-> {}, delete |-> {}, purged |-> FALSE]

IdlePass ==
    /\ supabase = "None" /\ store = {} /\ store0 = {} /\ pc = "idle"
    /\ offset = 0 /\ all_positions = <<>> /\ fetches = 0 /\ fetch_error = FALSE
    /\ vessels_to_keep = {} /\ vessels_to_delete = {}
    /\ response = NotCalled /\ mmsi_set = {} /\ mmsi_list = <<>> /\ i = 0
    /\ requests = <<>> /\ failed = <<>> /\ run = 1
    /\ prev = NoPrev

InitClassify ==
    /\ features \in SeqsUpTo(Features, MaxBoundaries)
    /\ point \in [1..Len(features) -> Answers]
    /\ boundaries = <<>>
    /\ _territorial_polys = <<>>
    /\ country = [ret |-> NotCalled, consulted |-> 0]
    /\ iso2 = [ret |-> NotCalled, consulted |-> 0]
    /\ IdlePass

\* main's load of the boundaries followed by one call of get_vessel_country
GetVesselCountry ==
    /\ country.ret = NotCalled
    /\ boundaries' = load_territorial_waters(features)
    /\ country' = get_vessel_country(point, boundaries')
    /\ UNCHANGED <<features, _territorial_polys, point, iso2>>
    /\ UNCHANGED passVars

\* one call of find_territorial_country, with its lazy load
FindTerritorialCountry ==
    /\ iso2.ret = NotCalled
    /\ _territorial_polys' = IF _territorial_polys = <<>>
                             THEN _load_geojson(features)
                             ELSE _territorial_polys
    /\ iso2' = find_territorial_country(point, _territorial_polys')
    /\ UNCHANGED <<features, boundaries, point, country>>
    /\ UNCHANGED passVars

NextClassify == GetVesselCountry \/ FindTerritorialCountry

SpecClassify == InitClassify /\ [][NextClassify]_vars

(***************************************************************************)
(* The retention pass: cleanup_all_history.main on a store.                *)
(*                                                                         *)
(* The dataset of the pass: area A, area B, and a line boundary whose      *)
(* properties name no jurisdiction; five kinds of position.                *)
(***************************************************************************)
BalticFile == <<[type |-> "Polygon", name |-> "A"],
                [type |-> "Polygon", name |-> "B"],
                [type |-> "LineString", name |-> None]>>

InA      == <<Inside, AtLimit, AtLimit>>
InB      == <<AtLimit, Inside, AtLimit>>
NearLine == <<AtLimit, AtLimit, Near>>
OpenSea  == <<AtLimit, AtLimit, AtLimit>>
BadGeom  == <<AtLimit, AllBad, AtLimit>>
Positions == {InA, InB, NearLine, OpenSea, BadGeom}

MMSI == 1..3
Rows == [mmsi : MMSI, pos : Positions]
Stores == {S \in SUBSET Rows : Cardinality(S) <= MaxRows}

Range(q) == {q[k] : k \in 1..Len(q)}
MmsiOf(S) == {r.mmsi : r \in S}

\* the lists that hold each element of S once: list(set) in any order
RECURSIVE Perms(_)
Perms(S) ==
    IF S = {} THEN {<<>>}
    ELSE UNION {{<<x>> \o q : q \in Perms(S \ {x})} : x \in S}

\* The orders in which the store may return its rows for .order('mmsi'):
\* ascending mmsi, rows of equal mmsi in any order (each request is a
\* query of its own, and the order of ties is not fixed between queries).
RECURSIVE SortedOrders(_)
SortedOrders(S) ==
    IF S = {} THEN {<<>>}
    ELSE LET m == CHOOSE x \in MmsiOf(S) : \A y \in MmsiOf(S) : x <= y
         IN UNION {{<<r>> \o q : q \in SortedOrders(S \ {r})} :
                       r \in {t \in S : t.mmsi = m}}

\* .range(lo, lo + page_size - 1) of an ordered result
PageOf(o, lo) == SubSeq(o, lo + 1, Min(lo + page_size, Len(o)))

\* str.lower() on the lines read at the prompt
Responses == {"yes", "YES", "no", "y"}
EOF == "<EOF>"
lower(r) == IF r = "YES" THEN "yes" ELSE r

InitPass ==
    /\ store \in Stores
    /\ store0 = store
    /\ \/ supabase = "client" /\ features = BalticFile
       \/ supabase = "None" /\ features = BalticFile
       \/ supabase = "client" /\ features = <<>>
    /\ pc = "start"
    /\ offset = 0 /\ all_positions = <<>> /\ fetches = 0 /\ fetch_error = FALSE
    /\ vessels_to_keep = {} /\ vessels_to_delete = {}
    /\ response = NotCalled /\ mmsi_set = {} /\ mmsi_list = <<>> /\ i = 0
    /\ requests = <<>> /\ failed = <<>> /\ run = 1
    /\ prev = NoPrev

Init ==
    /\ InitPass
    /\ boundaries = <<>>
    /\ _territorial_polys = <<>>
    /\ point = <<>>
    /\ country = [ret |-> NotCalled, consulted |-> 0]
    /\ iso2 = [ret |-> NotCalled, consulted |-> 0]

\* main, lines 247-253: the client, the boundaries, and the early returns
MainStart ==
    /\ pc = "start"
    /\ IF supabase = "None"
       THEN pc' = "done" /\ UNCHANGED boundaries
       ELSE /\ boundaries' = load_territorial_waters(features)
            /\ pc' = IF boundaries' = <<>> THEN "done" ELSE "fetch"
    /\ UNCHANGED <<features, _territorial_polys, point, country, iso2>>
    /\ UNCHANGED <<supabase, store, store0, offset, all_positions, fetches,
                   fetch_error, vessels_to_keep, vessels_to_delete, response,
                   mmsi_set, mmsi_list, i, requests, failed, run, prev>>

\* analyze_all_history with the loop left after the first non-empty page
FetchPageFirstOnly ==
    /\ pc = "fetch"
    /\ \E o \in SortedOrders(store) :
         LET batch == PageOf(o, offset)
         IN /\ fetches' = fetches + 1
            /\ IF batch = <<>>
               THEN pc' = "analyze" /\ UNCHANGED <<all_positions, offset>>
               ELSE /\ all_positions' = all_positions \o batch
                    /\ offset' = offset + page_size
                    /\ pc' = "analyze"
    /\ UNCHANGED classifyVars
    /\ UNCHANGED <<supabase, store, store0, fetch_error, vessels_to_keep,
                   vessels_to_delete, response, mmsi_set, mmsi_list, i,
                   requests, failed, run, prev>>

\* analyze_all_history, lines 152-168: one pass of the while loop whose
\* request succeeds
FetchPage ==
    /\ pc = "fetch"
    /\ \E o \in SortedOrders(store) :
         LET batch == PageOf(o, offset)
         IN /\ fetches' = fetches + 1
            /\ IF batch = <<>>
               THEN pc' = "analyze" /\ UNCHANGED <<all_positions, offset>>
               ELSE /\ all_positions' = all_positions \o batch
                    /\ offset' = offset + page_size
                    /\ pc' = IF Len(batch) < page_size THEN "analyze" ELSE "fetch"
    /\ UNCHANGED classifyVars
    /\ UNCHANGED <<supabase, store, store0, fetch_error, vessels_to_keep,
                   vessels_to_delete, response, mmsi_set, mmsi_list, i,
                   requests, failed, run, prev>>

\* analyze_all_history, a page request raises: lines 173-175
FetchFails ==
    /\ pc = "fetch"
    /\ fetches' = fetches + 1
    /\ fetch_error' = TRUE
    /\ vessels_to_keep' = {}
    /\ vessels_to_delete' = {}
    /\ pc' = "analyzed"
    /\ UNCHANGED classifyVars
    /\ UNCHANGED <<supabase, store, store0, offset, all_positions, response,
                   mmsi_set, mmsi_list, i, requests, failed, run, prev>>

\* countries_visited of vessel m over the positions read
countries_visited(m, positions, bs) ==
    {get_vessel_country(positions[k].pos, bs).ret :
         k \in {j \in 1..Len(positions) : positions[j].mmsi = m}} \ {None}

\* analyze_all_history, lines 177-212: grouping and classification.  An
\* exception of get_vessel_country is caught nowhere and ends main.
Analyze ==
    /\ pc = "analyze"
    /\ LET vessels == MmsiOf(Range(all_positions))
       IN IF \E m \in vessels : Raised \in countries_visited(m, all_positions, boundaries)
          THEN pc' = "crashed" /\ UNCHANGED <<vessels_to_keep, vessels_to_delete>>
          ELSE /\ vessels_to_keep' =
                    {m \in vessels :
                        Cardinality(countries_visited(m, all_positions, boundaries)) >= 2}
               /\ vessels_to_delete' = vessels \ vessels_to_keep'
               /\ pc' = "analyzed"
    /\ UNCHANGED classifyVars
    /\ UNCHANGED <<supabase, store, store0, offset, all_positions, fetches,
                   fetch_error, response, mmsi_set, mmsi_list, i, requests,
                   failed, run, prev>>

\* main, lines 259-261 and 270-271: the report before the prompt
Report ==
    /\ pc = "analyzed"
    /\ pc' = IF vessels_to_delete = {} THEN "done"
             ELSE IF vessels_to_keep = {} THEN "crashed"   \* division by zero
             ELSE "prompt"
    /\ UNCHANGED classifyVars
    /\ UNCHANGED <<supabase, store, store0, offset, all_positions, fetches,
                   fetch_error, vessels_to_keep, vessels_to_delete, response,
                   mmsi_set, mmsi_list, i, requests, failed, run, prev>>

\* main with the answer to the prompt ignored
ConfirmAnything ==
    /\ pc = "prompt"
    /\ \E r \in Responses \cup {EOF} :
         /\ response' = r
         /\ IF r = EOF
            THEN pc' = "crashed" /\ UNCHANGED mmsi_set
            ELSE pc' = "delete" /\ mmsi_set' = vessels_to_delete
    /\ UNCHANGED classifyVars
    /\ UNCHANGED <<supabase, store, store0, offset, all_positions, fetches,
                   fetch_error, vessels_to_keep, vessels_to_delete, mmsi_list,
                   i, requests, failed, run, prev>>

\* main, lines 262-269: the prompt and the call of delete_vessels_completely
Confirm ==
    /\ pc = "prompt"
    /\ \E r \in Responses \cup {EOF} :
         /\ response' = r
         /\ IF r = EOF
            THEN pc' = "crashed" /\ UNCHANGED mmsi_set
            ELSE IF lower(r) = "yes"
                 THEN pc' = "delete" /\ mmsi_set' = vessels_to_delete
                 ELSE pc' = "done" /\ UNCHANGED mmsi_set
    /\ UNCHANGED classifyVars
    /\ UNCHANGED <<supabase, store, store0, offset, all_positions, fetches,
                   fetch_error, vessels_to_keep, vessels_to_delete, mmsi_list,
                   i, requests, failed, run, prev>>

\* delete_vessels_completely, lines 216-220
DeleteStart ==
    /\ pc = "delete"
    /\ IF mmsi_set = {}
       THEN pc' = "done" /\ UNCHANGED <<mmsi_list, i>>
       ELSE /\ mmsi_list' \in Perms(mmsi_set)
            /\ i' = 0
            /\ pc' = "deleting"
    /\ UNCHANGED classifyVars
    /\ UNCHANGED <<supabase, store, store0, offset, all_positions, fetches,
                   fetch_error, vessels_to_keep, vessels_to_delete, response,
                   mmsi_set, requests, failed, run, prev>>

\* mmsi_list[i:i + batch_size]
BatchAt(l, k) == SubSeq(l, k + 1, Min(k + batch_size, Len(l)))
WithoutVessels(S, ms) == {r \in S : r.mmsi \notin ms}

\* delete_vessels_completely with the loop stepping one identifier too far
DeleteBatchSkipping ==
    /\ pc = "deleting"
    /\ LET batch == BatchAt(mmsi_list, i)
       IN /\ requests' = Append(requests, batch)
          /\ store' = WithoutVessels(store, Range(batch))
          /\ i' = i + batch_size + 1
          /\ pc' = IF i' >= Len(mmsi_list) THEN "done" ELSE "deleting"
    /\ UNCHANGED classifyVars
    /\ UNCHANGED <<supabase, store0, offset, all_positions, fetches,
                   fetch_error, vessels_to_keep, vessels_to_delete, response,
                   mmsi_set, mmsi_list, failed, run, prev>>

\* delete_vessels_completely, one pass of the for loop whose request succeeds
DeleteBatch ==
    /\ pc = "deleting"
    /\ LET batch == BatchAt(mmsi_list, i)
       IN /\ requests' = Append(requests, batch)
          /\ store' = WithoutVessels(store, Range(batch))
          /\ i' = i + batch_size
          /\ pc' = IF i' >= Len(mmsi_list) THEN "done" ELSE "deleting"
    /\ UNCHANGED classifyVars
    /\ UNCHANGED <<supabase, store0, offset, all_positions, fetches,
                   fetch_error, vessels_to_keep, vessels_to_delete, response,
                   mmsi_set, mmsi_list, failed, run, prev>>

\* delete_vessels_completely with the exception of a request swallowed
DeleteBatchFailsContinuing ==
    /\ pc = "deleting"
    /\ LET batch == BatchAt(mmsi_list, i)
       IN /\ requests' = Append(requests, batch)
          /\ failed' = batch
          /\ store' \in {store, WithoutVessels(store, Range(batch))}
          /\ i' = i + batch_size
          /\ pc' = IF i' >= Len(mmsi_list) THEN "done" ELSE "deleting"
    /\ UNCHANGED classifyVars
    /\ UNCHANGED <<supabase, store0, offset, all_positions, fetches,
                   fetch_error, vessels_to_keep, vessels_to_delete, response,
                   mmsi_set, mmsi_list, run, prev>>

\* delete_vessels_completely, a delete request raises: lines 238-240.  The
\* store may or may not have applied the request that failed.
DeleteBatchFails ==
    /\ pc = "deleting"
    /\ LET batch == BatchAt(mmsi_list, i)
       IN /\ requests' = Append(requests, batch)
          /\ failed' = batch
          /\ store' \in {store, WithoutVessels(store, Range(batch))}
          /\ pc' = "crashed"
    /\ UNCHANGED classifyVars
    /\ UNCHANGED <<supabase, store0, offset, all_positions, fetches,
                   fetch_error, vessels_to_keep, vessels_to_delete, response,
                   mmsi_set, mmsi_list, i, run, prev>>

\* the script is run again on the store the pass before left
Rerun ==
    /\ pc \in {"done", "crashed"}
    /\ run < MaxRuns
    /\ run' = run + 1
    /\ prev' = [ended |-> pc, keep |-> vessels_to_keep,
                delete |-> vessels_to_delete,
                purged |-> pc = "done" /\ requests # <<>> /\ failed = <<>>]
    /\ store0' = store
    /\ pc' = "start"
    /\ offset' = 0 /\ all_positions' = <<>> /\ fetches' = 0
    /\ fetch_error' = FALSE
    /\ vessels_to_keep' = {} /\ vessels_to_delete' = {}
    /\ response' = NotCalled /\ mmsi_set' = {} /\ mmsi_list' = <<>> /\ i' = 0
    /\ requests' = <<>> /\ failed' = <<>>
    /\ UNCHANGED classifyVars
    /\ UNCHANGED <<supabase, store>>

Next ==
    \/ MainStart
    \/ FetchPage
    \/ FetchFails
    \/ Analyze
    \/ Report
    \/ Confirm
    \/ DeleteStart
    \/ DeleteBatch
    \/ DeleteBatchFails
    \/ Rerun

Spec == Init /\ [][Next]_vars

(***************************************************************************)
(* delete_vessels_completely on its own: any store, any set of             *)
(* identifiers (of vessels in the store or not).                           *)
(***************************************************************************)
DeleteMMSI == 1..5
DeleteRows == [mmsi : DeleteMMSI, pos : {OpenSea}] \cup [mmsi : {1}, pos : {InA}]
DeleteStores == {S \in SUBSET DeleteRows : Cardinality(S) <= MaxRows}

InitDelete ==
    /\ store \in DeleteStores
    /\ store0 = store
    /\ mmsi_set \in SUBSET DeleteMMSI
    /\ pc = "delete"
    /\ supabase = "client"
    /\ features = BalticFile
    /\ boundaries = load_territorial_waters(BalticFile)
    /\ _territorial_polys = <<>>
    /\ point = <<>>
    /\ country = [ret |-> NotCalled, consulted |-> 0]
    /\ iso2 = [ret |-> NotCalled, consulted |-> 0]
    /\ offset = 0 /\ all_positions = <<>> /\ fetches = 0 /\ fetch_error = FALSE
    /\ vessels_to_keep = {} /\ vessels_to_delete = {}
    /\ response = NotCalled /\ mmsi_list = <<>> /\ i = 0
    /\ requests = <<>> /\ failed = <<>> /\ run = 1
    /\ prev = NoPrev

NextDelete == DeleteStart \/ DeleteBatch \/ DeleteBatchFails

SpecDelete == InitDelete /\ [][NextDelete]_vars

(***************************************************************************)
(* Properties of the retention pass (under Spec).                          *)
(***************************************************************************)
\* the codes the positions of vessel m in store S classify to
CodesOf(m, S) ==
    {get_vessel_country(r.pos, boundaries).ret : r \in {t \in S : t.mmsi = m}}
        \ {None}

\* C1: when analyze_all_history has returned, vessels_to_keep and
\* vessels_to_delete are disjoint and together are exactly the identifiers
\* present in the store.
C1_Partition ==
    pc = "analyzed" =>
        /\ vessels_to_keep \cap vessels_to_delete = {}
        /\ vessels_to_keep \cup vessels_to_delete = MmsiOf(store)

\* C2: when analyze_all_history has returned, a vessel of the store is in
\* vessels_to_keep exactly if the positions of its whole history classify to
\* at least 2 distinct codes, and is in vessels_to_delete otherwise.
C2_KeepIffTwoCodes ==
    pc = "analyzed" =>
        \A m \in MmsiOf(store) :
            IF Cardinality(CodesOf(m, store)) >= 2
            THEN m \in vessels_to_keep /\ m \notin vessels_to_delete
            ELSE m \in vessels_to_delete /\ m \notin vessels_to_keep

\* C3: a delete request is sent, and delete_vessels_completely is entered,
\* only after an affirmative answer at the prompt; after any other answer no
\* request was sent, the store is as the pass found it and the pass has
\* ended normally.
C3_DeleteOnlyConfirmed ==
    /\ (requests # <<>> \/ pc \in {"delete", "deleting"}) =>
           response \in Responses /\ lower(response) = "yes"
    /\ (response \in Responses /\ lower(response) # "yes") =>
           requests = <<>> /\ store = store0 /\ pc = "done"
    /\ store # store0 => requests # <<>>

\* the prompt was reached with vessels to delete and the answer was "no"
C3_Witness ==
    /\ response = "no"
    /\ vessels_to_delete # {} /\ MmsiOf(store) \cap vessels_to_delete # {}
    /\ pc = "done" /\ requests = <<>>

\* the pages the read of N rows takes: one more than the full pages
PagesFor(N) == (N \div page_size) + 1

\* C5: the paginated read terminates.  It sends at most PagesFor(rows)
\* requests; while it goes on every page so far was full; when it ends
\* without a failure it has sent exactly PagesFor(rows) requests, so a row
\* count that is a multiple of the page size costs one more, empty, page.
C5_PaginationTerminates ==
    LET N == Cardinality(store0)
    IN /\ fetches <= PagesFor(N)
       /\ pc = "fetch" =>
              /\ offset = fetches * page_size
              /\ Len(all_positions) = offset
              /\ offset <= N
       /\ (pc = "analyze" /\ ~fetch_error) =>
              /\ fetches = PagesFor(N)
              /\ Len(all_positions) = N
              /\ (N % page_size = 0 => offset = N)
              /\ (N % page_size # 0 => offset = fetches * page_size)

\* the rows fill whole pages, and the read has ended on the empty page
C5_Witness ==
    /\ pc = "analyze" /\ ~fetch_error
    /\ Cardinality(store0) = 2 * page_size
    /\ fetches = PagesFor(Cardinality(store0)) /\ fetches = 3
    /\ Len(all_positions) = Cardinality(store0)

\* C8: a page request that fails ends the analysis and the pass with the
\* failure: analyze_all_history returns no partition and main reports no
\* result.
C8_ReadErrorPropagates ==
    fetch_error => pc = "crashed"

\* C10: after a pass that analysed the store and deleted vessels_to_delete
\* without error, the analysis of the next pass returns an empty
\* vessels_to_delete and the vessels_to_keep of the pass before, and the
\* next pass deletes nothing.
C10_Convergence ==
    (run > 1 /\ prev.purged) =>
        /\ pc = "analyzed" =>
               vessels_to_delete = {} /\ vessels_to_keep = prev.keep
        /\ store = store0

\* the values get_vessel_country returns for boundaries whose feature names
\* no jurisdiction
UnresolvedCountries ==
    {boundaries[k].country :
         k \in {j \in 1..Len(boundaries) :
                    features[boundaries[j].geometry].name = None}}

\* the resolved codes the positions of vessel m in store S classify to
ResolvedCodesOf(m, S) == CodesOf(m, S) \ UnresolvedCountries

\* C11: only resolved jurisdiction codes count toward retention: when
\* analyze_all_history has returned, every vessel of vessels_to_keep has
\* positions in at least 2 resolved jurisdictions (a vessel with one resolved
\* jurisdiction plus unresolved boundaries is not kept).
C11_OnlyResolvedCodesCount ==
    pc = "analyzed" =>
        \A m \in vessels_to_keep :
            Cardinality(ResolvedCodesOf(m, store)) >= 2

\* C12: when the paginated read has ended without a failure, all_positions
\* holds every row of the store exactly once.
C12_EveryRowOnce ==
    (pc = "analyze" /\ ~fetch_error) =>
        /\ Range(all_positions) = store
        /\ Len(all_positions) = Cardinality(store)

\* C13: whenever analyze_all_history has returned a non-empty
\* vessels_to_delete, the next step of the pass is the report followed by the
\* confirmation prompt, for every partition.
C13_ReportReachesPrompt ==
    [][(pc = "analyzed" /\ vessels_to_delete # {}) => pc' = "prompt"]_vars

(***************************************************************************)
(* Properties of delete_vessels_completely (under SpecDelete).             *)
(***************************************************************************)
\* the requests that hold identifier m, as <<request, place>>
PlacesOf(m) ==
    {<<k, j>> \in (1..Len(requests)) \X (1..batch_size) :
         j <= Len(requests[k]) /\ requests[k][j] = m}

\* C4: when delete_vessels_completely has completed without error the store
\* holds no row of a vessel of mmsi_set, each identifier of mmsi_set was sent
\* in exactly one batch; at every moment no batch holds more than batch_size
\* identifiers and the rows of the other vessels are as they were.
C4_DeleteFrame ==
    /\ \A k \in 1..Len(requests) : Len(requests[k]) <= batch_size
    /\ WithoutVessels(store, mmsi_set) = WithoutVessels(store0, mmsi_set)
    /\ (pc = "done" /\ failed = <<>>) =>
           /\ store = WithoutVessels(store0, mmsi_set)
           /\ \A m \in mmsi_set : Cardinality(PlacesOf(m)) = 1
           /\ \A m \in DeleteMMSI \ mmsi_set : PlacesOf(m) = {}

\* two batches were sent; rows were removed and rows of other vessels remain
C4_Witness ==
    /\ pc = "done" /\ failed = <<>>
    /\ Len(requests) = 2
    /\ store # {} /\ store # store0
    /\ \E r \in store0 : r.mmsi = 1 /\ r.pos = InA /\ r \notin store

\* the identifiers of the batches before / after the one at index i
Before(l, k) == {l[j] : j \in 1..Min(k, Len(l))}
After(l, k) == {l[j] : j \in (k + batch_size + 1)..Len(l)}

\* C9: when a delete request fails the error ends the call: the failed
\* request is the last one sent; the rows of the vessels of the batches
\* before it are gone and those of the batches after it are all in the store.
C9_DeleteErrorHalts ==
    failed # <<>> =>
        /\ pc = "crashed"
        /\ requests[Len(requests)] = failed
        /\ Len(requests) = (i \div batch_size) + 1
        /\ \A r \in store : r.mmsi \notin Before(mmsi_list, i)
        /\ {r \in store : r.mmsi \in After(mmsi_list, i)}
             = {r \in store0 : r.mmsi \in After(mmsi_list, i)}

\* the second of three batches failed: rows of the first are gone, rows of
\* the third remain
C9_Witness ==
    /\ failed # <<>> /\ Len(requests) = 2 /\ Len(mmsi_list) > 2 * batch_size
    /\ \E r \in store0 : r.mmsi \in Before(mmsi_list, i)
    /\ \E r \in store : r.mmsi \in After(mmsi_list, i)

(***************************************************************************)
(* Properties of the classifiers (under SpecClassify).                     *)
(***************************************************************************)
\* feature g of the file is loaded by load_territorial_waters
Loaded(g) == features[g].type \in AreaTypes \cup LineTypes

\* the test get_vessel_country applies to feature g raises for the point
FailsV(g) == Loaded(g) /\ point[g].bad = "all"

\* the test get_vessel_country applies to feature g answers "match"
MatchesV(g) ==
    /\ Loaded(g)
    /\ point[g].bad # "all"
    /\ IF features[g].type \in AreaTypes THEN point[g].contains
       ELSE point[g].distance < PROXIMITY_THRESHOLD

\* the test find_territorial_country applies to feature g (contains, with
\* intersects when contains raises) raises / answers "match"
FailsT(g) == point[g].bad = "all"
MatchesT(g) ==
    \/ point[g].bad = "none" /\ point[g].contains
    \/ point[g].bad = "prepared" /\ point[g].intersects

CodeV(g) == IF features[g].name # None THEN features[g].name ELSE "Unknown"
CodeT(g) == features[g].name

FirstOf(S) == CHOOSE g \in S : \A h \in S : g <= h
AllFeatures == 1..Len(features)

\* C6: boundary precedence.  Each classifier that returns has returned the
\* code of the first feature, in file order, whose test matches the point
\* (None when no feature matches) and has consulted no boundary after it;
\* get_vessel_country raises only for a failing boundary that no match
\* precedes.
C6_FirstMatchWins ==
    /\ country.ret \notin {NotCalled, Raised} =>
         LET M == {g \in AllFeatures : MatchesV(g)}
         IN IF M = {}
            THEN country.ret = None /\ country.consulted = Len(boundaries)
            ELSE /\ country.ret = CodeV(FirstOf(M))
                 /\ country.consulted =
                      Cardinality({h \in 1..FirstOf(M) : Loaded(h)})
    /\ country.ret = Raised =>
         \E g \in AllFeatures :
             FailsV(g) /\ \A h \in 1..g : ~MatchesV(h)
    /\ iso2.ret # NotCalled =>
         LET M == {g \in AllFeatures : MatchesT(g)}
         IN IF M = {}
            THEN iso2.ret = None /\ iso2.consulted = Len(features)
            ELSE iso2.ret = CodeT(FirstOf(M)) /\ iso2.consulted = FirstOf(M)

\* two overlapping boundaries A then B, the point matched by both, and both
\* classifiers have answered A
C6_Witness ==
    /\ Len(features) = 2
    /\ features[1].name = "A" /\ features[2].name = "B"
    /\ MatchesV(1) /\ MatchesV(2) /\ MatchesT(1) /\ MatchesT(2)
    /\ country.ret = "A" /\ country.consulted = 1
    /\ iso2.ret = "A" /\ iso2.consulted = 1

\* the boundary list without the boundaries whose test raises for p
WithoutFailingV(bs, p) == SelectSeq(bs, LAMBDA b : p[b.geometry].bad # "all")
WithoutFailingT(polys, p) == SelectSeq(polys, LAMBDA e : p[e.poly].bad # "all")

\* C7: a boundary whose geometry test raises is treated as non-matching and
\* the following boundaries are still tested: neither classifier aborts, and
\* each returns what it returns for the list without the failing boundaries.
C7_FailingBoundarySkipped ==
    /\ country.ret # NotCalled =>
         /\ country.ret # Raised
         /\ country.ret =
              get_vessel_country(point, WithoutFailingV(boundaries, point)).ret
    /\ iso2.ret # NotCalled =>
         /\ iso2.ret # Raised
         /\ iso2.ret =
              find_territorial_country(point,
                  WithoutFailingT(_territorial_polys, point)).ret

\* C7 for find_territorial_country alone
C7_TerritorySkipsFailing ==
    iso2.ret # NotCalled =>
        /\ iso2.ret # Raised
        /\ iso2.ret =
             find_territorial_country(point,
                 WithoutFailingT(_territorial_polys, point)).ret

====
